---- MODULE Spec2Model ----
(***************************************************************************)
(* CatCloudBackup (src/main.py): one image is downloaded from the caption  *)
(* service and uploaded to the cloud storage API; a summary of the         *)
(* uploaded files is written to a local JSON file.                         *)
(*                                                                         *)
(* Every HTTP request of the program is one step of the model.  The remote *)
(* services are the environment: each response is drawn from the classes   *)
(* of answers the code distinguishes.  A file_info dictionary is modelled  *)
(* by its "name" (the file name carries a timestamp; the model uses the    *)
(* number of the call) and its "size"; "path" is a function of the name    *)
(* and "created"/"modified" are copied through unread.                     *)
(***************************************************************************)
EXTENDS Integers, Sequences, FiniteSets, TLC

\* ---------------------------------------------------------------- bounds
\* calls of backup_cat_image made on one CatCloudBackup object
MaxCalls == 2
\* calls of save_backup_info made on one CatCloudBackup object
MaxSaves == 2
\* largest file size (bytes) the services report
MaxSize == 2

Sizes == 1..MaxSize

\* ------------------------------------------------------ program constants
\* _wait_for_operation_completion: max_attempts = 10
max_attempts == 10
\* _wait_for_operation_completion: delay_seconds = 1
initial_delay == 1

VARIABLES
    caller,                \* "main": the run of main(); "client": a client of the class
    pc,                    \* the next step of the program
    text,                  \* main(): the stripped text read from the user
    _uploaded_files_info,  \* CatCloudBackup._uploaded_files_info
    image_data,            \* backup_cat_image: len(image_data), 0 outside a call
    attempt,               \* _wait_for_operation_completion: loop index
    delay_seconds,         \* _wait_for_operation_completion: delay_seconds
    backup_data,           \* save_backup_info: the summary of the latest call
    backup_info,           \* the file backup_info.json
    \* ---- what an observer of the run records
    calls,                 \* backup_cat_image calls begun
    saves,                 \* save_backup_info calls begun
    reqs,                  \* requests sent during the current/latest backup call
    mkdir_resp,            \* answer to the folder-creation PUT of that call
    put_resp,              \* answer to the upload PUT of that call
    lastOutcome,           \* outcome of the latest status request
    lastWait,              \* seconds slept in the latest loop iteration
    totalWait,             \* seconds slept so far in the poll
    nInProgress,           \* status responses 'in-progress' so far in the poll
    sawSuccess,            \* some status response said 'success'
    pollResult,            \* "none" | "returned" | "raised" | "crashed"
    callResult,            \* "none" | "returned" | "raised" (latest backup call)
    raisedAt,              \* the step at which the latest backup call raised
    error,                 \* class of the exception that ended the call / run
    returned,              \* the file_info returned by each call that returned
    recordsAtCall          \* _uploaded_files_info when the current call began

progVars == <<caller, pc, text, _uploaded_files_info, image_data, attempt,
              delay_seconds, backup_data, backup_info>>
pollObs == <<lastOutcome, lastWait, totalWait, nInProgress, sawSuccess,
             pollResult>>
callObs == <<reqs, mkdir_resp, put_resp, callResult, raisedAt, returned,
             recordsAtCall>>
vars == <<progVars, pollObs, callObs, calls, saves, error>>

\* ---------------------------------------------------------------- helpers
NoReqs == [mkdir |-> 0, download |-> 0, geturl |-> 0, put |-> 0,
           status |-> 0, meta |-> 0]

Sent(kind) == [reqs EXCEPT ![kind] = @ + 1]

EmptySummary == [files |-> <<>>, total_files |-> 0, total_size |-> 0]

RECURSIVE Pow2(_)
Pow2(n) == IF n <= 0 THEN 1 ELSE 2 * Pow2(n - 1)

\* ------------------------------------------- decisions taken by the code

\* _create_remote_directory: 409 returns before raise_for_status; any other
\* error status, and a transport error, raise RequestException; each other
\* status returns.
\* Variant: the test for 409 left out.
CreateDirRaisesNo409(resp) == resp \in {"409", "error", "transport"}
CreateDirRaises(resp) == resp \in {"error", "transport"}

\* backup_cat_image, _upload_file_to_disk: the step that follows a step that
\* did not raise ("call" is the entry of backup_cat_image).
\* Variant: the download moved before the folder creation.
NextStepDownloadFirst(step) ==
    CASE step = "call"     -> "download"
      [] step = "download" -> "mkdir"
      [] step = "mkdir"    -> "geturl"
      [] step = "geturl"   -> "put"
      [] step = "poll"     -> "meta"
NextStep(step) ==
    CASE step = "call"     -> "mkdir"
      [] step = "mkdir"    -> "download"
      [] step = "download" -> "geturl"
      [] step = "geturl"   -> "put"
      [] step = "poll"     -> "meta"

\* _upload_file_to_disk: status_code == 202 and a truthy "href" in the body.
\* Variant: the 202 branch left out.
UploadNeedsPollingNever(resp) == FALSE
UploadNeedsPolling(resp) == resp = "202href"

\* _wait_for_operation_completion, one iteration of the loop at index att:
\* "return", "raise" (RequestException leaves the function), "crash" (another
\* exception leaves it) or "next" (the loop goes on).  The exception raised
\* for 'failed' is raised inside the try block, so the handler below it
\* catches it like an HTTP or transport error.
PollHandled(outcome, att) ==
    CASE outcome = "success"     -> "return"
      [] outcome = "in-progress" -> "next"
      [] outcome = "other"       -> "next"
      [] outcome \in {"failed", "http_error", "transport_error"} ->
             IF att = max_attempts - 1 THEN "raise" ELSE "next"
      [] outcome = "crash"       -> "crash"

\* time.sleep(delay_seconds) of that iteration: seconds slept.
SleepAfter(outcome, att, delay) ==
    IF outcome = "in-progress" /\ att < max_attempts - 1 THEN delay ELSE 0

\* delay_seconds *= 2 of that iteration.
\* Variant: the doubling left out.
DelayAfterNoDoubling(outcome, att, delay) == delay
DelayAfter(outcome, att, delay) ==
    IF outcome = "in-progress" /\ att < max_attempts - 1 THEN delay * 2 ELSE delay

\* for attempt in range(max_attempts): the index of the next iteration.
\* Variant: an 'in-progress' answer does not use up an attempt.
NextAttemptRepoll(outcome, att) == IF outcome = "in-progress" THEN att ELSE att + 1
NextAttempt(outcome, att) == att + 1

\* _upload_file_to_disk: the dictionary returned; "size" is
\* file_metadata.get("size", len(file_data)).
FileInfo(name, body, len) ==
    [name |-> name, size |-> IF body = <<>> THEN len ELSE body[1]]

\* backup_cat_image: the record list after _upload_file_to_disk; the append
\* is reached only when it returned.
\* Variant: the append moved to before the upload result is known.
RecordsAfterUploadAlways(ok, files, info) == Append(files, info)
RecordsAfterUpload(ok, files, info) == IF ok THEN Append(files, info) ELSE files

\* save_backup_info: sum(file_info["size"] for file_info in files), from 0,
\* first to last.
RECURSIVE SumFrom(_, _, _)
SumFrom(files, i, acc) ==
    IF i > Len(files) THEN acc ELSE SumFrom(files, i + 1, acc + files[i].size)

\* Variant: the sum starts at the second record.
total_size_skip_first(files) == SumFrom(files, 2, 0)
total_size(files) == SumFrom(files, 1, 0)

\* save_backup_info: backup_data (group_name and backup_date are not read by
\* anything in the program).
Summary(files) ==
    [files |-> files, total_files |-> Len(files), total_size |-> total_size(files)]

\* Where control goes when backup_cat_image ends: main() saves the summary
\* after a return and goes to its except clauses after a raise; a client of
\* the class gets control back.
\* Variant: main() without the call of save_backup_info.
AfterCallNoSave(who, res) == IF who = "main" THEN "exit" ELSE "idle"
AfterCall(who, res) ==
    IF who = "main" THEN (IF res = "returned" THEN "save" ELSE "exit") ELSE "idle"

\* ------------------------------------------------------------------ Init
Init ==
    /\ caller \in {"main", "client"}
    /\ pc = IF caller = "main" THEN "main" ELSE "idle"
    /\ text = ""
    /\ _uploaded_files_info = <<>>
    /\ image_data = 0
    /\ attempt = 0
    /\ delay_seconds = initial_delay
    /\ backup_data = EmptySummary
    /\ backup_info = [state |-> "untouched", data |-> EmptySummary]
    /\ calls = 0
    /\ saves = 0
    /\ reqs = NoReqs
    /\ mkdir_resp = "none"
    /\ put_resp = "none"
    /\ lastOutcome = "none"
    /\ lastWait = 0
    /\ totalWait = 0
    /\ nInProgress = 0
    /\ sawSuccess = FALSE
    /\ pollResult = "none"
    /\ callResult = "none"
    /\ raisedAt = "none"
    /\ error = "none"
    /\ returned = <<>>
    /\ recordsAtCall = <<>>

\* --------------------------------------------------- entering and leaving

\* backup_cat_image(text) is entered.
EnterBackup ==
    /\ calls' = calls + 1
    /\ pc' = NextStep("call")
    /\ reqs' = NoReqs
    /\ mkdir_resp' = "none"
    /\ put_resp' = "none"
    /\ callResult' = "none"
    /\ raisedAt' = "none"
    /\ error' = "none"
    /\ recordsAtCall' = _uploaded_files_info
    /\ lastOutcome' = "none"
    /\ lastWait' = 0
    /\ totalWait' = 0
    /\ nInProgress' = 0
    /\ sawSuccess' = FALSE
    /\ pollResult' = "none"
    /\ attempt' = 0
    /\ delay_seconds' = initial_delay
    /\ UNCHANGED <<_uploaded_files_info, image_data, backup_data, backup_info,
                   saves, returned>>

\* An exception of class kind leaves backup_cat_image from step.
RaiseFrom(step, kind) ==
    /\ callResult' = "raised"
    /\ raisedAt' = step
    /\ error' = kind
    /\ pc' = AfterCall(caller, "raised")
    /\ image_data' = 0

\* main(): the token, the group name and the text are read; an empty text
\* raises ValueError, caught by main's first except clause.
MainReadText(t) ==
    /\ pc = "main"
    /\ text' = t
    /\ IF t = ""
       THEN /\ pc' = "exit"
            /\ error' = "ValueError"
            /\ UNCHANGED <<_uploaded_files_info, image_data, attempt,
                           delay_seconds, backup_data, backup_info, calls,
                           saves, pollObs, callObs>>
            /\ UNCHANGED caller
       ELSE /\ EnterBackup
            /\ UNCHANGED caller

\* A client of the class calls backup_cat_image.
ClientBackup ==
    /\ pc = "idle"
    /\ calls < MaxCalls
    /\ EnterBackup
    /\ UNCHANGED <<caller, text>>

\* ------------------------------------------------ steps of backup_cat_image

\* What a step inside backup_cat_image leaves alone.
outside == <<caller, text, backup_data, backup_info, calls, saves, recordsAtCall>>

\* The call goes on with step next.
GoOn(next) ==
    /\ pc' = next
    /\ UNCHANGED <<callResult, raisedAt, error>>

\* _create_remote_directory: PUT /resources?path=/<group>.
CreateRemoteDirectory(resp) ==
    /\ pc = "mkdir"
    /\ reqs' = Sent("mkdir")
    /\ mkdir_resp' = resp
    /\ IF CreateDirRaises(resp)
       THEN RaiseFrom("mkdir", "RequestException")
       ELSE GoOn(NextStep("mkdir")) /\ UNCHANGED image_data
    /\ UNCHANGED <<outside, _uploaded_files_info, attempt, delay_seconds,
                   put_resp, pollObs, returned>>

\* _download_cat_image: GET of the caption service; a timeout, an error
\* status and a transport error raise RequestException; _generate_filename
\* follows and sends nothing.
DownloadCatImage(resp, len) ==
    /\ pc = "download"
    /\ reqs' = Sent("download")
    /\ IF resp = "ok"
       THEN GoOn(NextStep("download")) /\ image_data' = len
       ELSE RaiseFrom("download", "RequestException")
    /\ UNCHANGED <<outside, _uploaded_files_info, attempt, delay_seconds,
                   mkdir_resp, put_resp, pollObs, returned>>

\* _get_upload_url: GET /resources/upload; a body without "href" raises
\* KeyError, which no handler of the class catches.
GetUploadUrl(resp) ==
    /\ pc = "geturl"
    /\ reqs' = Sent("geturl")
    /\ CASE resp = "href"   -> GoOn(NextStep("geturl")) /\ UNCHANGED image_data
         [] resp = "nohref" -> RaiseFrom("geturl", "Exception")
         [] resp = "error"  -> RaiseFrom("geturl", "RequestException")
    /\ UNCHANGED <<outside, _uploaded_files_info, attempt, delay_seconds,
                   mkdir_resp, put_resp, pollObs, returned>>

\* _upload_file_to_disk: PUT of the bytes to the upload URL.  A 202 whose
\* body is not JSON makes response.json() raise; the class of that exception
\* depends on the installed requests version.
PutFile(resp, kind) ==
    /\ pc = "put"
    /\ reqs' = Sent("put")
    /\ put_resp' = resp
    /\ CASE resp \in {"error", "timeout"} -> RaiseFrom("put", "RequestException")
         [] resp = "202badjson" -> RaiseFrom("put", kind)
         [] OTHER ->
              /\ GoOn(IF UploadNeedsPolling(resp) THEN "poll" ELSE NextStep("poll"))
              /\ UNCHANGED image_data
    /\ UNCHANGED <<outside, _uploaded_files_info, attempt, delay_seconds,
                   mkdir_resp, pollObs, returned>>

\* _wait_for_operation_completion: one iteration of the loop, from the GET of
\* the status URL to the end of the loop body; the iteration that exhausts
\* range(max_attempts) ends the function, which then returns None.
PollStep(outcome) ==
    /\ pc = "poll"
    /\ LET h == PollHandled(outcome, attempt)
           n == NextAttempt(outcome, attempt)
           w == SleepAfter(outcome, attempt, delay_seconds)
           res == CASE h = "return" -> "returned"
                    [] h = "raise"  -> "raised"
                    [] h = "crash"  -> "crashed"
                    [] h = "next"   -> IF n >= max_attempts THEN "returned" ELSE "none"
       IN /\ reqs' = Sent("status")
          /\ lastOutcome' = outcome
          /\ lastWait' = w
          /\ totalWait' = totalWait + w
          /\ nInProgress' = nInProgress + (IF outcome = "in-progress" THEN 1 ELSE 0)
          /\ sawSuccess' = (sawSuccess \/ outcome = "success")
          /\ delay_seconds' = IF res = "none"
                              THEN DelayAfter(outcome, attempt, delay_seconds)
                              ELSE initial_delay
          /\ attempt' = IF res = "none" THEN n ELSE 0
          /\ pollResult' = res
          /\ CASE res = "none"     -> GoOn("poll") /\ UNCHANGED image_data
               [] res = "returned" -> GoOn(NextStep("poll")) /\ UNCHANGED image_data
               [] res = "raised"   -> RaiseFrom("poll", "RequestException")
               [] res = "crashed"  -> RaiseFrom("poll", "Exception")
    /\ UNCHANGED <<outside, _uploaded_files_info, mkdir_resp, put_resp, returned>>

\* _get_file_metadata, then the rest of _upload_file_to_disk and of
\* backup_cat_image: the dictionary is built, appended and returned.  resp is
\* <<status, body>>; body is <<size>>, or <<>> when the metadata has no
\* "size".  A body that is not JSON makes response.json() raise.
GetFileMetadata(resp, kind) ==
    /\ pc = "meta"
    /\ reqs' = Sent("meta")
    /\ LET info == FileInfo(calls, resp[2], image_data)
       IN /\ _uploaded_files_info' =
                 RecordsAfterUpload(resp[1] = "ok", _uploaded_files_info, info)
          /\ CASE resp[1] = "ok" ->
                    /\ callResult' = "returned"
                    /\ returned' = Append(returned, info)
                    /\ pc' = AfterCall(caller, "returned")
                    /\ image_data' = 0
                    /\ UNCHANGED <<raisedAt, error>>
               [] resp[1] = "error" ->
                    RaiseFrom("meta", "RequestException") /\ UNCHANGED returned
               [] resp[1] = "badjson" ->
                    RaiseFrom("meta", kind) /\ UNCHANGED returned
    /\ UNCHANGED <<outside, attempt, delay_seconds, mkdir_resp, put_resp, pollObs>>

\* ---------------------------------------------------------- save_backup_info

\* save_backup_info: backup_data is built, then written; open() failing
\* leaves the file as it was, a failing write leaves it damaged; both raise
\* Exception.
SaveBackupInfo(io) ==
    /\ saves' = saves + 1
    /\ backup_data' = Summary(_uploaded_files_info)
    /\ backup_info' =
          CASE io = "ok"          -> [state |-> "written", data |-> backup_data']
            [] io = "open_fails"  -> backup_info
            [] io = "write_fails" -> [state |-> "damaged", data |-> EmptySummary]
    /\ error' = IF io = "ok" THEN "none" ELSE "Exception"
    /\ UNCHANGED <<caller, text, _uploaded_files_info, image_data, attempt,
                   delay_seconds, calls, pollObs, callObs>>

\* main(): save_backup_info() after backup_cat_image returned, then the
\* footer, or the last except clause.
MainSave(io) ==
    /\ pc = "save"
    /\ SaveBackupInfo(io)
    /\ pc' = "exit"

\* A client of the class calls save_backup_info.
ClientSave(io) ==
    /\ pc = "idle"
    /\ saves < MaxSaves
    /\ SaveBackupInfo(io)
    /\ pc' = pc

\* ------------------------------------------------------------ specification
ExcKinds == {"RequestException", "Exception"}

DownloadResponses ==
    {<<"error", 0>>, <<"timeout", 0>>} \cup {<<"ok", len>> : len \in Sizes}

MetaResponses ==
    {<<"ok", <<>>>>, <<"error", <<>>>>, <<"badjson", <<>>>>}
        \cup {<<"ok", <<s>>>> : s \in Sizes}

Next ==
    \/ \E t \in {"", "cat"} : MainReadText(t)
    \/ ClientBackup
    \/ \E r \in {"2xx", "409", "error", "transport"} : CreateRemoteDirectory(r)
    \/ \E r \in DownloadResponses : DownloadCatImage(r[1], r[2])
    \/ \E r \in {"href", "nohref", "error"} : GetUploadUrl(r)
    \/ \E r \in {"202href", "202nohref", "202badjson", "2xx", "error", "timeout"},
          k \in ExcKinds : PutFile(r, k)
    \/ \E o \in {"success", "failed", "in-progress", "other", "http_error",
                 "transport_error", "crash"} : PollStep(o)
    \/ \E r \in MetaResponses, k \in ExcKinds : GetFileMetadata(r, k)
    \/ \E io \in {"ok", "open_fails", "write_fails"} : MainSave(io)
    \/ \E io \in {"ok", "open_fails", "write_fails"} : ClientSave(io)

Spec == Init /\ [][Next]_vars

\* ================================================================ properties

\* The order of the requests of one backup_cat_image call after the image
\* and the folder: upload URL, PUT of the bytes, status polling, metadata,
\* append of the record.
LaterOrder ==
    /\ reqs.geturl > 0 => (reqs.mkdir = 1 /\ reqs.download = 1)
    /\ reqs.put > 0 => reqs.geturl = 1
    /\ reqs.status > 0 => reqs.put = 1
    /\ reqs.meta > 0 => reqs.put = 1
    /\ pc = "poll" => reqs.meta = 0
    /\ callResult = "returned" => reqs.meta = 1
    /\ _uploaded_files_info # recordsAtCall => reqs.meta = 1

\* The sum of the sizes of the first n records returned to the callers.
RECURSIVE SizeOfReturned(_)
SizeOfReturned(n) == IF n = 0 THEN 0 ELSE SizeOfReturned(n - 1) + returned[n].size

\* C1: one call of _wait_for_operation_completion sends at most max_attempts
\* (10) status requests whatever the outcomes are, and ends: while it runs,
\* the requests sent equal the loop index, which is below 10 and which each
\* iteration that does not end the function raises by one.
C1_PollEndsWithinMaxAttempts ==
    /\ [](/\ reqs.status <= max_attempts
          /\ pc = "poll" => (pollResult = "none" /\ attempt < max_attempts
                                /\ reqs.status = attempt)
          /\ pollResult # "none" => pc # "poll")
    /\ [][pc = "poll" => /\ reqs'.status = reqs.status + 1
                         /\ (pc' # "poll" \/ attempt' = attempt + 1)]_vars

\* C1: the 10th status request was sent and the function has ended.
C1_Witness == reqs.status = max_attempts /\ pollResult \in {"returned", "raised"}

\* C2: when a status response says 'failed', the poll raises at that attempt:
\* that request stays the latest one, no metadata request is sent and no
\* record is appended.
C2_PollStopsOnFailed ==
    lastOutcome = "failed" => /\ pollResult = "raised"
                              /\ callResult = "raised"
                              /\ reqs.meta = 0
                              /\ _uploaded_files_info = recordsAtCall

\* C3 as stated: the wait before the n-th status request is 2^(n-2) s
\* whatever the earlier outcomes were; no wait follows the 10th attempt; the
\* total wait is at most 511 s.
C3_WaitDoublesEveryAttempt ==
    /\ (pc = "poll" /\ attempt >= 1) => lastWait = Pow2(attempt - 1)
    /\ (pollResult # "none" /\ reqs.status = max_attempts) => lastWait = 0
    /\ totalWait <= 511

\* C3 amended: the wait before the next status request is 2^(k-1) s when the
\* latest response said 'in-progress' and was the k-th to say so, and 0 after
\* every other outcome; no wait follows the 10th attempt; the total wait is at
\* most 511 s.
C3_WaitDoublesAfterInProgress ==
    /\ (pc = "poll" /\ attempt >= 1) =>
           lastWait = IF lastOutcome = "in-progress"
                      THEN Pow2(nInProgress - 1) ELSE 0
    /\ (pollResult # "none" /\ reqs.status = max_attempts) => lastWait = 0
    /\ totalWait <= 511

\* C3: nine 'in-progress' answers in a row: the waits were 1, 2, ..., 256 s.
C3_Witness ==
    /\ pc = "poll" /\ attempt = 9 /\ nInProgress = 9
    /\ lastWait = 256 /\ totalWait = 511

\* C4 as stated: after a 202 to the upload PUT the status URL is polled at
\* least once before the metadata request; after another success code no
\* status request is sent.
C4_Every202IsPolled ==
    /\ ((pc = "meta" \/ reqs.meta > 0) /\ put_resp \in {"202href", "202nohref"})
           => reqs.status >= 1
    /\ ((pc = "meta" \/ reqs.meta > 0) /\ put_resp = "2xx") => reqs.status = 0

\* C4 amended: after a 202 whose body carries an "href" the status URL is
\* polled at least once before the metadata request; after another success
\* code, and after a 202 without "href", no status request is sent.
C4_202WithHrefIsPolled ==
    /\ ((pc = "meta" \/ reqs.meta > 0) /\ put_resp = "202href") => reqs.status >= 1
    /\ put_resp = "202href" => (reqs.status = 0 => pc = "poll")
    /\ put_resp \in {"2xx", "202nohref"} =>
           (reqs.status = 0 /\ (pc = "meta" \/ reqs.meta = 1))

\* C4: a 202 with an operation URL, polled, and the metadata request sent.
C4_Witness == put_resp = "202href" /\ reqs.status >= 1 /\ reqs.meta = 1

C6_FolderExistsIsSuccess ==
    /\ (mkdir_resp \in {"2xx", "409"} /\ reqs.download = 0) =>
           (pc = "download" /\ callResult = "none"
               /\ _uploaded_files_info = recordsAtCall)
    /\ mkdir_resp \in {"2xx", "409"} => raisedAt # "mkdir"
    /\ mkdir_resp \in {"error", "transport"} =>
           /\ callResult = "raised" /\ raisedAt = "mkdir"
           /\ reqs = [NoReqs EXCEPT !.mkdir = 1]
           /\ _uploaded_files_info = recordsAtCall

\* C6: a call whose folder already existed went on to return.
C6_Witness == mkdir_resp = "409" /\ callResult = "returned"

\* C7 as stated: every run of main() that has ended has called
\* save_backup_info with the records appended so far.
C7_EveryExitSaved ==
    (caller = "main" /\ pc = "exit") =>
        (saves >= 1 /\ backup_data.files = _uploaded_files_info)

\* C7 amended: a run of main() that has ended has called save_backup_info,
\* once and with the records appended so far, exactly when backup_cat_image
\* returned; a run that ended through an error raised before that has not
\* called it and has written no file.
C7_SavedWhenBackupReturned ==
    (caller = "main" /\ pc = "exit") =>
        /\ saves = (IF callResult = "returned" THEN 1 ELSE 0)
        /\ saves = 1 => (backup_data.files = _uploaded_files_info
                            /\ Len(_uploaded_files_info) = 1)
        /\ saves = 0 => backup_info.state = "untouched"

\* C7: a run of main() that ended with the summary written.
C7_Witness ==
    /\ caller = "main" /\ pc = "exit" /\ saves = 1
    /\ backup_info.state = "written" /\ backup_info.data.total_files = 1

\* C8: the poll returns normally only when some status response said
\* 'success'.
C8_ReturnsOnlyOnSuccess == pollResult = "returned" => sawSuccess

\* C9: _uploaded_files_info holds exactly the records returned by the calls
\* that returned, in call order; a call that has raised, or is still running,
\* has left it as it was when the call began.
C9_RecordsAreReturnedCalls ==
    /\ _uploaded_files_info = returned
    /\ \A i, j \in 1..Len(_uploaded_files_info) :
           i < j => _uploaded_files_info[i].name < _uploaded_files_info[j].name
    /\ callResult \in {"none", "raised"} => _uploaded_files_info = recordsAtCall
    /\ callResult = "returned" =>
           (/\ Len(_uploaded_files_info) = Len(recordsAtCall) + 1
            /\ SubSeq(_uploaded_files_info, 1, Len(recordsAtCall)) = recordsAtCall
            /\ _uploaded_files_info[Len(_uploaded_files_info)].name = calls)

\* C9: the first call returned, the second raised in the metadata request.
C9_Witness ==
    /\ calls = 2 /\ callResult = "raised" /\ raisedAt = "meta"
    /\ Len(_uploaded_files_info) = 1 /\ _uploaded_files_info[1].name = 1

\* C10: each call of save_backup_info builds a summary whose 'files' is the
\* record list, 'total_files' the number of records and 'total_size' the sum
\* of their sizes, writes that summary unless the write fails (the file then
\* stays as it was or is damaged), and leaves the record list as it was.
C10_SummaryMatchesRecords ==
    [][saves' = saves + 1 =>
          /\ backup_data'.files = _uploaded_files_info
          /\ backup_data'.total_files = Len(returned)
          /\ backup_data'.total_size = SizeOfReturned(Len(returned))
          /\ _uploaded_files_info' = _uploaded_files_info
          /\ backup_info'.state = "written" =>
                 (backup_info'.data = backup_data' \/ backup_info' = backup_info)]_vars

\* C10: a written summary of two records of different sizes.
C10_Witness ==
    /\ saves = 1 /\ backup_info.state = "written"
    /\ backup_info.data.total_files = 2
    /\ backup_info.data.total_size = returned[1].size + returned[2].size
    /\ returned[1].size # returned[2].size

====
